---- MODULE Spec2Model ----
(***************************************************************************)
(* A model of the batchzip-master backend: the chunked upload writer       *)
(* (FileService.upload_single_file and its copy in handlers/compress.py),  *)
(* the batch upload handler add_compress_task, ZipService (extract_zip,    *)
(* create_zip_from_directory, rezip_file), the validators                  *)
(* (FileService.validate_file_queue, validate_single_file and the          *)
(* handler's validate_file), cleanup_uploaded_files, paginator_list, and   *)
(* concurrent file-processing units sharing the disk.                      *)
(*                                                                         *)
(* Each component has its own specification over the shared variable list; *)
(* a specification leaves the other components' variables at their idle    *)
(* values.                                                                 *)
(***************************************************************************)
EXTENDS Integers, Sequences, FiniteSets, TLC

VARIABLES
    \* ---- upload_single_file (one call) ----
    variant,      \* "service": FileService.upload_single_file, "handler": compress.upload_single_file
    file_src,     \* the bytes the UploadFile will deliver
    file_pos,     \* how many of them file.read() has delivered
    upc,          \* position of the call
    temp_path,    \* the file at TEMP_DIR/<unique>.tmp: [exists, data]
    final_path,   \* the file at UPLOAD_DIR/<unique>:   [exists, data]
    total_size,   \* local total_size
    md5_hash,     \* state of hashlib.md5()
    chunk,        \* the chunk read last
    written,      \* history: the chunks out_file.write() was given, in order
    upload_ret,   \* the returned dict, or None
    upload_exc,   \* the exception that left the call, or None
    \* ---- ZipService ----
    mode,             \* "rezip": one call of rezip_file; "roundtrip": create_zip_from_directory, then extract_zip
    zpc,              \* position of the call
    fs_files,         \* regular files on disk: a set of [path, data]
    fs_dirs,          \* directories on disk: a set of paths
    zip_path,         \* the container extract_zip reads
    extract_to,       \* extract_zip's destination directory (a path)
    extract_password, \* "" stands for None (both are false in `if password:`)
    member_idx,       \* position in zip_ref.namelist()
    extracted_files,  \* extract_zip's list
    extract_returned, \* extract_zip has returned its list
    source_dir,       \* create_zip_from_directory's source (a path)
    compress_password,
    build_todo,       \* files of the walk not yet written to the container
    build_calls,      \* history: calls of create_zip_from_directory
    output_path,      \* the container at output_path
    zexc,             \* the message of the exception that left the call, "" for none
    zret,             \* the call returned output_path
    \* ---- add_compress_task (one request) ----
    files,            \* the request's UploadFile list: [filename, size, body]
    hpc,              \* position of the handler
    idx,              \* the file the for loop is at
    uploaded_files,   \* local uploaded_files: the file_info dicts
    upload_dir,       \* names of the files in UPLOAD_DIR
    temp_dir,         \* names of the files in TEMP_DIR
    next_uuid,        \* uuid.uuid4(): a fresh value per call
    background_tasks, \* tasks added with background_tasks.add_task
    persisted,        \* history: files of the batch of which a byte reached the disk
    result,           \* how the handler ended: a returned body or a raised HTTPException
    response,         \* the HTTP response the application delivers: [sent, status_code, code]
    \* ---- FileService.validate_file_queue (one call) ----
    q_files,          \* the files argument: a list of [filename, size, body]
    qpc,              \* position of the call
    q_idx,            \* the file the for loop is at
    file_names,       \* local file_names: the set of names seen
    q_ret,            \* the returned dict: [kind, name, n]
    \* ---- per-file validation (one call) ----
    v_variant,        \* "service": FileService.validate_single_file, "handler": compress.validate_file
    v_file,           \* the UploadFile
    vpc,              \* position of the call
    v_ret,            \* the returned dict's kind, or the exception raised
    \* ---- cleanup_uploaded_files (one call) ----
    c_files,          \* the uploaded_files argument: a list of file_info dicts
    cpc,              \* position of the call
    c_idx,            \* the entry the for loop is at
    c_disk,           \* the paths that exist on disk
    c_attempted,      \* history: entries whose deletion was attempted
    c_failed,         \* history: entries whose deletion raised
    c_raised,         \* an exception left the call
    \* ---- paginator_list (one call) ----
    data_list,        \* the list
    page,             \* the page argument
    page_size,        \* the page_size argument
    ppc,              \* position of the call
    p_offset,         \* local offset
    p_limit,          \* local limit
    p_ret,            \* the returned list
    \* ---- concurrent file-processing units ----
    u_kind,           \* unit -> "upload" | "rezip"
    u_name,           \* unit -> original file name (uploads)
    u_pc,             \* unit -> position
    u_token,          \* unit -> the uuid4 value it drew, 0 before
    uuid_drawn,       \* the uuid4 values drawn so far
    disk,             \* the paths that exist in TEMP_DIR and UPLOAD_DIR
    u_touched         \* history: unit -> the paths it wrote, renamed or deleted

uploadVars == <<variant, file_src, file_pos, upc, temp_path, final_path,
                total_size, md5_hash, chunk, written, upload_ret, upload_exc>>

zipVars == <<mode, zpc, fs_files, fs_dirs, zip_path, extract_to, extract_password,
             member_idx, extracted_files, extract_returned, source_dir,
             compress_password, build_todo, build_calls, output_path, zexc, zret>>

batchVars == <<files, hpc, idx, uploaded_files, upload_dir, temp_dir, next_uuid,
               background_tasks, persisted, result, response>>

queueVars == <<q_files, qpc, q_idx, file_names, q_ret>>

validateVars == <<v_variant, v_file, vpc, v_ret>>

cleanupVars == <<c_files, cpc, c_idx, c_disk, c_attempted, c_failed, c_raised>>

pageVars == <<data_list, page, page_size, ppc, p_offset, p_limit, p_ret>>

concVars == <<u_kind, u_name, u_pc, u_token, uuid_drawn, disk, u_touched>>

\* The validators, cleanup, the paginator and the concurrent units.
laterVars == <<queueVars, validateVars, cleanupVars, pageVars, concVars>>

vars == <<uploadVars, zipVars, batchVars, laterVars>>

None == [none |-> TRUE]

Min(a, b) == IF a < b THEN a ELSE b

(***************************************************************************)
(* Configuration.  The byte counts are scaled down: one model byte stands  *)
(* for a run of bytes, the chunk is 2 of them, and the two size limits     *)
(* keep their order (the handler's copy has the smaller limit).            *)
(***************************************************************************)
\* settings.CHUNK_SIZE = compress.CHUNK_SIZE = 5 MiB
CHUNK_SIZE == 2
\* settings.MAX_FILE_SIZE = 500 MiB
settings_MAX_FILE_SIZE == 4
\* compress.MAX_FILE_SIZE = 100 MiB
compress_MAX_FILE_SIZE == 3

\* Longest source the model streams (beyond both limits).
MaxSrcLen == 6

Bytes == {0, 1}

RECURSIVE SeqsUpTo(_, _)
SeqsUpTo(S, n) ==
    IF n = 0 THEN {<<>>}
    ELSE LET shorter == SeqsUpTo(S, n - 1)
         IN  shorter \cup {Append(s, x) : s \in {t \in shorter : Len(t) = n - 1}, x \in S}

Sources == SeqsUpTo(Bytes, MaxSrcLen)

(***************************************************************************)
(* hashlib.md5: update() folds the bytes of a chunk into the state in      *)
(* order, hexdigest() reads the state.  The fold below is order-sensitive  *)
(* and collision-free on the sources of the model.                         *)
(***************************************************************************)
md5_new == 0

RECURSIVE md5_update(_, _)
md5_update(h, bytes) ==
    IF bytes = <<>> THEN h
    ELSE md5_update(h * 3 + Head(bytes) + 1, Tail(bytes))

hexdigest(h) == h

\* The limit each copy of upload_single_file compares with.
MaxFileSize(v) == IF v = "service" THEN settings_MAX_FILE_SIZE ELSE compress_MAX_FILE_SIZE

Absent == [exists |-> FALSE, data |-> <<>>]
File(d) == [exists |-> TRUE, data |-> d]

\* total_size += len(chunk)
AddChunkSizeCounted(total, c) == total + CHUNK_SIZE
AddChunkSize(total, c) == total + Len(c)

\* if total_size > MAX_FILE_SIZE: raise HTTPException(400, ...)
OverLimit(total, v) == total > MaxFileSize(v)

\* The "size" entry of the returned dict: the byte count in the service, the
\* count converted to hundredths of the (scaled) megabyte in the handler's copy.
SizeField(v, total) == IF v = "service" THEN total ELSE total * 100

\* What an upload step leaves alone: the other components.
UploadFrame == UNCHANGED <<zipVars, batchVars, laterVars>>

\* The handler's variables while no request is modelled.
IdleBatch ==
    /\ files = <<>>
    /\ hpc = "idle"
    /\ idx = 0
    /\ uploaded_files = <<>>
    /\ upload_dir = {}
    /\ temp_dir = {}
    /\ next_uuid = 0
    /\ background_tasks = <<>>
    /\ persisted = {}
    /\ result = [kind |-> "none", status |-> 0]
    /\ response = [sent |-> FALSE, status_code |-> 0, code |-> 0]

\* validate_file_queue while no call is modelled.
IdleQueue ==
    /\ q_files = <<>>
    /\ qpc = "idle"
    /\ q_idx = 0
    /\ file_names = {}
    /\ q_ret = [kind |-> "none", name |-> <<>>, n |-> 0]

\* The per-file validators while no call is modelled.
IdleValidate ==
    /\ v_variant = "idle"
    /\ v_file = [filename |-> <<>>, size |-> [known |-> FALSE, n |-> 0], body |-> 0]
    /\ vpc = "idle"
    /\ v_ret = "none"

\* cleanup_uploaded_files while no call is modelled.
IdleCleanup ==
    /\ c_files = <<>>
    /\ cpc = "idle"
    /\ c_idx = 0
    /\ c_disk = {}
    /\ c_attempted = {}
    /\ c_failed = {}
    /\ c_raised = FALSE

\* paginator_list while no call is modelled.
IdlePage ==
    /\ data_list = <<>>
    /\ page = 1
    /\ page_size = 1
    /\ ppc = "idle"
    /\ p_offset = 0
    /\ p_limit = 0
    /\ p_ret = <<>>

\* No concurrent units.
IdleConc ==
    /\ u_kind = <<>>
    /\ u_name = <<>>
    /\ u_pc = <<>>
    /\ u_token = <<>>
    /\ uuid_drawn = {}
    /\ disk = {}
    /\ u_touched = <<>>

IdleLater == IdleQueue /\ IdleValidate /\ IdleCleanup /\ IdlePage /\ IdleConc

\* The ZipService variables while no ZipService call is modelled.
IdleZip ==
    /\ mode = "idle"
    /\ zpc = "idle"
    /\ fs_files = {}
    /\ fs_dirs = {}
    /\ zip_path = None
    /\ extract_to = <<>>
    /\ extract_password = ""
    /\ member_idx = 0
    /\ extracted_files = <<>>
    /\ extract_returned = FALSE
    /\ source_dir = <<>>
    /\ compress_password = ""
    /\ build_todo = {}
    /\ build_calls = 0
    /\ output_path = None
    /\ zexc = ""
    /\ zret = FALSE

InitUpload ==
    /\ IdleZip
    /\ IdleBatch
    /\ IdleLater
    /\ variant \in {"service", "handler"}
    /\ file_src \in Sources
    /\ file_pos = 0
    /\ upc = "call"
    /\ temp_path = Absent
    /\ final_path = Absent
    /\ total_size = 0
    /\ md5_hash = md5_new
    /\ chunk = <<>>
    /\ written = <<>>
    /\ upload_ret = None
    /\ upload_exc = None

\* aiofiles.open(temp_path, 'wb'): the temp file exists and is empty.
OpenTemp ==
    /\ UploadFrame
    /\ upc = "call"
    /\ temp_path' = File(<<>>)
    /\ upc' = "read"
    /\ UNCHANGED <<variant, file_src, file_pos, final_path, total_size, md5_hash,
                   chunk, written, upload_ret, upload_exc>>

\* chunk = await file.read(CHUNK_SIZE): up to CHUNK_SIZE of the remaining
\* bytes, nothing only at the end of the source.
ReadChunk ==
    /\ UploadFrame
    /\ upc = "read"
    /\ \E n \in 1..CHUNK_SIZE :
          LET m == Min(n, Len(file_src) - file_pos)
          IN  /\ chunk' = SubSeq(file_src, file_pos + 1, file_pos + m)
              /\ file_pos' = file_pos + m
    /\ upc' = IF chunk' = <<>> THEN "rename" ELSE "count"
    /\ UNCHANGED <<variant, file_src, temp_path, final_path, total_size, md5_hash,
                   written, upload_ret, upload_exc>>

\* file.read() raises (the client went away, the spool file failed).
ReadFails ==
    /\ UploadFrame
    /\ upc = "read"
    /\ upc' = "except"
    /\ upload_exc' = [kind |-> "IOError", status |-> 0]
    /\ UNCHANGED <<variant, file_src, file_pos, temp_path, final_path, total_size,
                   md5_hash, chunk, written, upload_ret>>

\* total_size += len(chunk); the check against the limit raises before the
\* chunk is hashed or written.
CountChunk ==
    /\ UploadFrame
    /\ upc = "count"
    /\ total_size' = AddChunkSize(total_size, chunk)
    /\ IF OverLimit(total_size', variant)
       THEN /\ upc' = "except"
            /\ upload_exc' = [kind |-> "HTTPException", status |-> 400]
       ELSE /\ upc' = "write"
            /\ UNCHANGED upload_exc
    /\ UNCHANGED <<variant, file_src, file_pos, temp_path, final_path, md5_hash,
                   chunk, written, upload_ret>>

\* md5_hash.update(chunk); await out_file.write(chunk)
WriteChunk ==
    /\ UploadFrame
    /\ upc = "write"
    /\ md5_hash' = md5_update(md5_hash, chunk)
    /\ temp_path' = File(temp_path.data \o chunk)
    /\ written' = Append(written, chunk)
    /\ upc' = "read"
    /\ UNCHANGED <<variant, file_src, file_pos, final_path, total_size, chunk,
                   upload_ret, upload_exc>>

\* out_file.write(chunk) raises after part of the chunk reached the disk.
WriteFails ==
    /\ UploadFrame
    /\ upc = "write"
    /\ md5_hash' = md5_update(md5_hash, chunk)
    /\ \E k \in 0..(Len(chunk) - 1) :
          temp_path' = File(temp_path.data \o SubSeq(chunk, 1, k))
    /\ upc' = "except"
    /\ upload_exc' = [kind |-> "IOError", status |-> 0]
    /\ UNCHANGED <<variant, file_src, file_pos, final_path, total_size, chunk,
                   written, upload_ret>>

\* temp_path.rename(final_path)
Rename(t, f) == <<Absent, t>>

RenameTemp ==
    /\ UploadFrame
    /\ upc = "rename"
    /\ temp_path' = Rename(temp_path, final_path)[1]
    /\ final_path' = Rename(temp_path, final_path)[2]
    /\ upc' = "return"
    /\ UNCHANGED <<variant, file_src, file_pos, total_size, md5_hash, chunk,
                   written, upload_ret, upload_exc>>

\* temp_path.rename(final_path) raises: nothing moved.
RenameFails ==
    /\ UploadFrame
    /\ upc = "rename"
    /\ upc' = "except"
    /\ upload_exc' = [kind |-> "IOError", status |-> 0]
    /\ UNCHANGED <<variant, file_src, file_pos, temp_path, final_path, total_size,
                   md5_hash, chunk, written, upload_ret>>

\* return {..., "size": total_size, "md5": md5_hash.hexdigest(), ...}
ReturnInfo ==
    /\ UploadFrame
    /\ upc = "return"
    /\ upload_ret' = [size |-> SizeField(variant, total_size),
                      md5 |-> hexdigest(md5_hash)]
    /\ upc' = "done"
    /\ UNCHANGED <<variant, file_src, file_pos, temp_path, final_path, total_size,
                   md5_hash, chunk, written, upload_exc>>

\* except Exception as e: if temp_path.exists(): temp_path.unlink(); raise e
UnlinkTempKept(t) == t
UnlinkTemp(t) == IF t.exists THEN Absent ELSE t

ExceptCleanup ==
    /\ UploadFrame
    /\ upc = "except"
    /\ temp_path' = UnlinkTemp(temp_path)
    /\ upc' = "raised"
    /\ UNCHANGED <<variant, file_src, file_pos, final_path, total_size, md5_hash,
                   chunk, written, upload_ret, upload_exc>>

NextUpload ==
    \/ OpenTemp
    \/ ReadChunk
    \/ ReadFails
    \/ CountChunk
    \/ WriteChunk
    \/ WriteFails
    \/ RenameTemp
    \/ RenameFails
    \/ ReturnInfo
    \/ ExceptCleanup

SpecUpload == InitUpload /\ [][NextUpload]_vars

RECURSIVE Concat(_)
Concat(chunks) == IF chunks = <<>> THEN <<>> ELSE Head(chunks) \o Concat(Tail(chunks))

RECURSIVE SumLen(_)
SumLen(chunks) == IF chunks = <<>> THEN 0 ELSE Len(Head(chunks)) + SumLen(Tail(chunks))

\* C1: whenever FileService.upload_single_file has returned a descriptor, its
\* size is the sum of the lengths of the chunks written, is the number of bytes
\* read from the source, is at most MAX_FILE_SIZE, and its checksum is the md5
\* of the written bytes, which are the file on disk and the source, in order.
C1_SizeAndChecksum ==
    (variant = "service" /\ upload_ret # None) =>
        /\ upload_ret.size = SumLen(written)
        /\ upload_ret.size = file_pos
        /\ upload_ret.size = Len(file_src)
        /\ upload_ret.size <= settings_MAX_FILE_SIZE
        /\ upload_ret.md5 = hexdigest(md5_update(md5_new, Concat(written)))
        /\ final_path = File(Concat(written))
        /\ Concat(written) = file_src

\* An accepted upload of exactly MAX_FILE_SIZE bytes that was read in chunks
\* of different lengths.
C1_Witness ==
    /\ variant = "service"
    /\ upload_ret # None
    /\ upload_ret.size = settings_MAX_FILE_SIZE
    /\ \E i, j \in 1..Len(written) : Len(written[i]) # Len(written[j])

\* C2: once the bytes read exceed the limit the call is on its way out with
\* the size-limit error (HTTPException 400) and returns nothing; when any
\* error has left the call the temp file is gone; and in every state of every
\* call the final path is absent or holds the whole source.
C2_NoPartialFinalFile ==
    /\ (total_size > MaxFileSize(variant)) =>
            /\ upc \in {"except", "raised"}
            /\ upload_exc = [kind |-> "HTTPException", status |-> 400]
    /\ (Len(file_src) > MaxFileSize(variant)) =>
            /\ upload_ret = None
            /\ ~final_path.exists
    /\ (upc = "raised") => (~temp_path.exists /\ ~final_path.exists)
    /\ final_path.exists => final_path.data = file_src

\* The size-limit error has left the call after a partial temp file had been
\* written.
C2_Witness ==
    /\ upc = "raised"
    /\ upload_exc = [kind |-> "HTTPException", status |-> 400]
    /\ written # <<>>
    /\ file_pos > MaxFileSize(variant)

(***************************************************************************)
(* ZipService.                                                             *)
(*                                                                         *)
(* A name is a string, modelled as the sequence of its characters; a path  *)
(* on disk is the sequence of its segments.  A container is                *)
(* [valid, enc, entries]: valid is FALSE for a file zipfile.ZipFile cannot *)
(* open (BadZipFile), enc is the password its file entries are encrypted   *)
(* with ("" for none), entries is the sequence of [name, data] in central  *)
(* directory order.                                                        *)
(***************************************************************************)
ZipFrame == UNCHANGED <<uploadVars, batchVars, laterVars>>

IdleUpload ==
    /\ variant = "idle"
    /\ file_src = <<>>
    /\ file_pos = 0
    /\ upc = "idle"
    /\ temp_path = Absent
    /\ final_path = Absent
    /\ total_size = 0
    /\ md5_hash = md5_new
    /\ chunk = <<>>
    /\ written = <<>>
    /\ upload_ret = None
    /\ upload_exc = None

\* str.split("/")
RECURSIVE SplitFrom(_, _, _)
SplitFrom(s, cur, acc) ==
    IF s = <<>> THEN Append(acc, cur)
    ELSE IF Head(s) = "/" THEN SplitFrom(Tail(s), <<>>, Append(acc, cur))
    ELSE SplitFrom(Tail(s), Append(cur, Head(s)), acc)

Split(s) == SplitFrom(s, <<>>, <<>>)

\* "/".join(segments)
RECURSIVE Join(_)
Join(segs) ==
    IF segs = <<>> THEN <<>>
    ELSE IF Len(segs) = 1 THEN segs[1]
    ELSE segs[1] \o <<"/">> \o Join(Tail(segs))

\* sub in s
Contains(s, sub) ==
    \E i \in 1..(Len(s) - Len(sub) + 1) : SubSeq(s, i, i + Len(sub) - 1) = sub

IsPrefix(p, q) == Len(p) <= Len(q) /\ SubSeq(q, 1, Len(p)) = p

DotDot == <<".", ".">>

\* pathlib.Path(member) on POSIX: the parts without the root; empty and "."
\* segments are dropped, ".." segments are kept.
PathParts(member) == SelectSeq(Split(member), LAMBDA x : x # <<>> /\ x # <<".">>)

\* Path(member).is_absolute()
is_absolute(member) == member # <<>> /\ Head(member) = "/"

\* str(Path(member))
PathStr(member) ==
    IF is_absolute(member) THEN <<"/">> \o Join(PathParts(member))
    ELSE IF PathParts(member) = <<>> THEN <<".">>
    ELSE Join(PathParts(member))

\* if member_path.is_absolute() or ".." in str(member_path): skip the member
IsUnsafeDotsOnly(member) == Contains(PathStr(member), DotDot)
IsUnsafe(member) == is_absolute(member) \/ Contains(PathStr(member), DotDot)

\* zipfile.ZipFile._extract_member: the member's name without its empty, "."
\* and ".." segments, below the destination.
ArcParts(member) ==
    SelectSeq(Split(member), LAMBDA x : x # <<>> /\ x # <<".">> /\ x # DotDot)

TargetPath(dest, member) == dest \o ArcParts(member)

\* ZipInfo.is_dir()
is_dir(member) == member # <<>> /\ member[Len(member)] = "/"

\* extracted_files.append(str(Path(extract_to) / member))
RecordedPath(dest, member) ==
    IF is_absolute(member) THEN PathParts(member) ELSE dest \o PathParts(member)

\* The proper ancestors of a path, the empty path (the working directory) aside.
Ancestors(p) == {SubSeq(p, 1, k) : k \in 1..(Len(p) - 1)}

IsFile(fset, p) == \E f \in fset : f.path = p

\* Writing member's target p fails when p is a directory, or an ancestor of p
\* is a regular file; making the directory p fails when p or an ancestor of it
\* is a regular file.
WriteBlocked(fset, dirs, p) ==
    \/ p \in dirs
    \/ \E a \in Ancestors(p) : IsFile(fset, a)

MkdirBlocked(fset, dirs, p) ==
    \/ IsFile(fset, p)
    \/ \E a \in Ancestors(p) : IsFile(fset, a)

\* open(targetpath, "wb") and copy: the file is created or replaced.
PutFile(fset, p, d) == {f \in fset : f.path # p} \cup {[path |-> p, data |-> d]}

\* shutil.rmtree(root)
RmtreeFiles(fset, root) == {f \in fset : ~IsPrefix(root, f.path)}
RmtreeDirs(dirs, root) == {d \in dirs : ~IsPrefix(root, d)}

\* ZipInfo.from_file(filename, arcname): the archive name of a file at the
\* relative path rel (os.path.normpath, then "/" between the segments).
ArcName(rel) ==
    Join(SelectSeq(rel, LAMBDA x : x # <<>> /\ x # <<".">>))

\* file_path.relative_to(source_path)
relative_to(p, root) == SubSeq(p, Len(root) + 1, Len(p))

\* source_path.rglob('*') filtered by is_file()
WalkFiles(fset, root) == {f \in fset : IsPrefix(root, f.path) /\ f.path # root}

\* zipfile writes every entry unencrypted: in mode 'w', setpassword() only
\* sets the default password for reading.
WrittenEncryption(password) == ""

(***************************************************************************)
(* Inputs.                                                                 *)
(***************************************************************************)
\* Entries of the containers handed to rezip_file.
MaxEntries == 2
\* Files and depth of the directory trees handed to create_zip_from_directory.
MaxTreeFiles == 2
MaxDepth == 2

Passwords == {"", "p", "q"}
Data == {0, 1}

\* temp/extract_<uuid4>, the uploads source directory and a fresh destination.
Scratch == << <<"T">> >>
SrcRoot == << <<"S">> >>
DestRoot == << <<"D">> >>

\* "a", "a/b", "b/", "../a", "/a", "a..b", "."
EntryNames ==
    { <<"a">>,
      <<"a", "/", "b">>,
      <<"b", "/">>,
      <<".", ".", "/", "a">>,
      <<"/", "a">>,
      <<"a", ".", ".", "b">>,
      <<".">> }

Entries == {[name |-> n, data |-> 0] : n \in EntryNames}

ZipFiles ==
    {[valid |-> FALSE, enc |-> "", entries |-> <<>>]}
    \cup {[valid |-> TRUE, enc |-> e, entries |-> es] :
             e \in {"", "p"}, es \in SeqsUpTo(Entries, MaxEntries)}

\* Legal file names: "a", "a..b".
FileNames == { <<"a">>, <<"a", ".", ".", "b">> }

RelPaths == SeqsUpTo(FileNames, MaxDepth) \ {<<>>}

TreeFiles == {[path |-> SrcRoot \o r, data |-> d] : r \in RelPaths, d \in Data}

\* A file fits a tree when its path is free and neither below nor above a file.
Fits(t, f) ==
    \A g \in t : ~IsPrefix(g.path, f.path) /\ ~IsPrefix(f.path, g.path)

RECURSIVE TreesUpTo(_)
TreesUpTo(n) ==
    IF n = 0 THEN {{}}
    ELSE LET smaller == TreesUpTo(n - 1)
         IN  smaller \cup
             UNION {{t \cup {f} : f \in {g \in TreeFiles : Fits(t, g)}} : t \in smaller}

DirsOf(fset) == UNION {Ancestors(f.path) : f \in fset}

InitZipCommon ==
    /\ IdleUpload
    /\ IdleBatch
    /\ IdleLater
    /\ extract_to = <<>>
    /\ member_idx = 0
    /\ extracted_files = <<>>
    /\ extract_returned = FALSE
    /\ build_todo = {}
    /\ build_calls = 0
    /\ output_path = None
    /\ zexc = ""
    /\ zret = FALSE

\* rezip_file(zip_path, output_path, extract_password, compress_password)
InitRezip ==
    /\ mode = "rezip"
    /\ zpc = "rezip_call"
    /\ fs_files = {}
    /\ fs_dirs = {}
    /\ zip_path \in ZipFiles
    /\ extract_password \in Passwords
    /\ compress_password \in {"", "p"}
    /\ source_dir = <<>>

\* create_zip_from_directory(source_dir, output_path, compress_password), then
\* extract_zip(output_path, a fresh directory, extract_password)
InitRoundTrip ==
    /\ mode = "roundtrip"
    /\ zpc = "build_open"
    /\ \/ /\ fs_files \in TreesUpTo(MaxTreeFiles)
          /\ fs_dirs = {SrcRoot} \cup DirsOf(fs_files)
       \/ /\ fs_files = {}
          /\ fs_dirs = {}
    /\ zip_path = None
    /\ extract_password \in Passwords
    /\ compress_password \in {"", "p"}
    /\ source_dir = SrcRoot

InitZip == InitZipCommon /\ (InitRezip \/ InitRoundTrip)

\* Where the call goes when an exception leaves a step: rezip_file's finally,
\* or out of the function.
Raised == IF mode = "rezip" THEN "finally" ELSE "done"

(***************************************************************************)
(* extract_zip                                                             *)
(***************************************************************************)
\* Path(extract_to).mkdir(parents=True, exist_ok=True); zipfile.ZipFile(zip_path, 'r')
ExtractOpen ==
    /\ ZipFrame
    /\ zpc = "ext_open"
    /\ zip_path.valid
    /\ fs_dirs' = fs_dirs \cup {extract_to} \cup Ancestors(extract_to)
    /\ member_idx' = 1
    /\ zpc' = "ext_loop"
    /\ UNCHANGED <<mode, fs_files, zip_path, extract_to, extract_password,
                   extracted_files, extract_returned, source_dir, compress_password,
                   build_todo, build_calls, output_path, zexc, zret>>

\* except zipfile.BadZipFile: raise Exception("无效的ZIP文件")
ExtractBadZip ==
    /\ ZipFrame
    /\ zpc = "ext_open"
    /\ ~zip_path.valid
    /\ fs_dirs' = fs_dirs \cup {extract_to} \cup Ancestors(extract_to)
    /\ zexc' = "invalid_zip"
    /\ zpc' = Raised
    /\ UNCHANGED <<mode, fs_files, zip_path, extract_to, extract_password, member_idx,
                   extracted_files, extract_returned, source_dir, compress_password,
                   build_todo, build_calls, output_path, zret>>

Member == zip_path.entries[member_idx]

InLoop == zpc = "ext_loop" /\ member_idx <= Len(zip_path.entries)

\* if member_path.is_absolute() or ".." in str(member_path): continue
ExtractSkip ==
    /\ ZipFrame
    /\ InLoop
    /\ IsUnsafe(Member.name)
    /\ member_idx' = member_idx + 1
    /\ UNCHANGED <<mode, zpc, fs_files, fs_dirs, zip_path, extract_to, extract_password,
                   extracted_files, extract_returned, source_dir, compress_password,
                   build_todo, build_calls, output_path, zexc, zret>>

Parent(p) == SubSeq(p, 1, Len(p) - 1)

\* zip_ref.extract(member, extract_to): "" when it succeeds, else the message
\* extract_zip raises.  os.makedirs of the upper directories comes first, then
\* (a file entry) ZipFile.open with the password, then open(targetpath, "wb").
ExtractError(fset, dirs, zip, pw, dest, name) ==
    LET p == TargetPath(dest, name)
    IN  IF \E a \in Ancestors(Parent(p)) : IsFile(fset, a) THEN "extract_error"
        ELSE IF is_dir(name)
             THEN IF MkdirBlocked(fset, dirs, p) THEN "extract_error" ELSE ""
        ELSE IF zip.enc # "" /\ pw = "" THEN "extract_failed"
        ELSE IF zip.enc # "" /\ pw # zip.enc THEN "bad_password"
        ELSE IF WriteBlocked(fset, dirs, p) THEN "extract_error"
        ELSE ""

\* zip_ref.extract(member, extract_to); extracted_files.append(...)
ExtractMember ==
    /\ ZipFrame
    /\ InLoop
    /\ ~IsUnsafe(Member.name)
    /\ ExtractError(fs_files, fs_dirs, zip_path, extract_password, extract_to, Member.name) = ""
    /\ LET p == TargetPath(extract_to, Member.name)
       IN  /\ fs_dirs' = fs_dirs \cup Ancestors(p)
                            \cup (IF is_dir(Member.name) THEN {p} ELSE {})
           /\ fs_files' = IF is_dir(Member.name) THEN fs_files
                          ELSE PutFile(fs_files, p, Member.data)
    /\ extracted_files' = Append(extracted_files,
                                 [member |-> Member.name,
                                  path |-> RecordedPath(extract_to, Member.name)])
    /\ member_idx' = member_idx + 1
    /\ UNCHANGED <<mode, zpc, zip_path, extract_to, extract_password, extract_returned,
                   source_dir, compress_password, build_todo, build_calls, output_path,
                   zexc, zret>>

\* zip_ref.extract raises: RuntimeError (password) or OSError, re-raised by
\* extract_zip's except clauses under its own messages.
ExtractMemberFails ==
    /\ ZipFrame
    /\ InLoop
    /\ ~IsUnsafe(Member.name)
    /\ ExtractError(fs_files, fs_dirs, zip_path, extract_password, extract_to, Member.name) # ""
    /\ zexc' = ExtractError(fs_files, fs_dirs, zip_path, extract_password, extract_to, Member.name)
    /\ zpc' = Raised
    /\ UNCHANGED <<mode, fs_files, fs_dirs, zip_path, extract_to, extract_password,
                   member_idx, extracted_files, extract_returned, source_dir,
                   compress_password, build_todo, build_calls, output_path, zret>>

\* return extracted_files
ExtractReturn ==
    /\ ZipFrame
    /\ zpc = "ext_loop"
    /\ member_idx > Len(zip_path.entries)
    /\ extract_returned' = TRUE
    /\ zpc' = IF mode = "rezip" THEN "check" ELSE "done"
    /\ UNCHANGED <<mode, fs_files, fs_dirs, zip_path, extract_to, extract_password,
                   member_idx, extracted_files, source_dir, compress_password,
                   build_todo, build_calls, output_path, zexc, zret>>

(***************************************************************************)
(* create_zip_from_directory                                               *)
(***************************************************************************)
\* if not source_path.exists(): raise ...; re-raised as "创建ZIP文件失败: ..."
BuildSourceMissing ==
    /\ ZipFrame
    /\ zpc = "build_open"
    /\ source_dir \notin fs_dirs
    /\ build_calls' = build_calls + 1
    /\ zexc' = "build_failed"
    /\ zpc' = Raised
    /\ UNCHANGED <<mode, fs_files, fs_dirs, zip_path, extract_to, extract_password,
                   member_idx, extracted_files, extract_returned, source_dir,
                   compress_password, build_todo, output_path, zret>>

\* zipfile.ZipFile(output_path, 'w', ...); zip_ref.setpassword(...)
BuildOpen ==
    /\ ZipFrame
    /\ zpc = "build_open"
    /\ source_dir \in fs_dirs
    /\ build_calls' = build_calls + 1
    /\ output_path' = [valid |-> FALSE, enc |-> WrittenEncryption(compress_password),
                       entries |-> <<>>]
    /\ build_todo' = WalkFiles(fs_files, source_dir)
    /\ zpc' = "build_loop"
    /\ UNCHANGED <<mode, fs_files, fs_dirs, zip_path, extract_to, extract_password,
                   member_idx, extracted_files, extract_returned, source_dir,
                   compress_password, zexc, zret>>

\* zip_ref.write(file_path, relative_path), in the order of the walk
BuildWrite ==
    /\ ZipFrame
    /\ zpc = "build_loop"
    /\ \E f \in build_todo :
          /\ output_path' =
                [output_path EXCEPT !.entries =
                    Append(@, [name |-> ArcName(relative_to(f.path, source_dir)),
                               data |-> f.data])]
          /\ build_todo' = build_todo \ {f}
    /\ UNCHANGED <<mode, zpc, fs_files, fs_dirs, zip_path, extract_to, extract_password,
                   member_idx, extracted_files, extract_returned, source_dir,
                   compress_password, build_calls, zexc, zret>>

\* A write raises (disk full, unreadable file): the partly written output
\* stays on disk, closed or not.
BuildFails ==
    /\ ZipFrame
    /\ zpc = "build_loop"
    /\ \E v \in BOOLEAN : output_path' = [output_path EXCEPT !.valid = v]
    /\ zexc' = "build_failed"
    /\ zpc' = Raised
    /\ UNCHANGED <<mode, fs_files, fs_dirs, zip_path, extract_to, extract_password,
                   member_idx, extracted_files, extract_returned, source_dir,
                   compress_password, build_todo, build_calls, zret>>

\* The with block closes the container; return output_path
BuildClose ==
    /\ ZipFrame
    /\ zpc = "build_loop"
    /\ build_todo = {}
    /\ output_path' = [output_path EXCEPT !.valid = TRUE]
    /\ zret' = TRUE
    /\ zpc' = IF mode = "rezip" THEN "finally" ELSE "rt_extract"
    /\ UNCHANGED <<mode, fs_files, fs_dirs, zip_path, extract_to, extract_password,
                   member_idx, extracted_files, extract_returned, source_dir,
                   compress_password, build_todo, build_calls, zexc>>

(***************************************************************************)
(* rezip_file                                                              *)
(***************************************************************************)
\* temp_extract_dir = Path("temp") / f"extract_{uuid.uuid4().hex}"
RezipCall ==
    /\ ZipFrame
    /\ zpc = "rezip_call"
    /\ extract_to' = Scratch
    /\ zpc' = "ext_open"
    /\ UNCHANGED <<mode, fs_files, fs_dirs, zip_path, extract_password, member_idx,
                   extracted_files, extract_returned, source_dir, compress_password,
                   build_todo, build_calls, output_path, zexc, zret>>

\* if not extracted_files: raise Exception("解压后没有找到任何文件")
NoFilesCheckDropped(extracted) == FALSE
NoFiles(extracted) == extracted = <<>>

RezipCheck ==
    /\ ZipFrame
    /\ zpc = "check"
    /\ IF NoFiles(extracted_files)
       THEN /\ zexc' = "empty"
            /\ zpc' = "finally"
            /\ UNCHANGED source_dir
       ELSE /\ source_dir' = extract_to
            /\ zpc' = "build_open"
            /\ UNCHANGED zexc
    /\ UNCHANGED <<mode, fs_files, fs_dirs, zip_path, extract_to, extract_password,
                   member_idx, extracted_files, extract_returned, compress_password,
                   build_todo, build_calls, output_path, zret>>

\* finally: if temp_extract_dir.exists(): shutil.rmtree(temp_extract_dir)
CleanupOnSuccessOnly(exc) == exc = ""
CleanupRuns(exc) == TRUE

RezipFinally ==
    /\ ZipFrame
    /\ zpc = "finally"
    /\ IF CleanupRuns(zexc) /\ extract_to \in fs_dirs
       THEN /\ fs_files' = RmtreeFiles(fs_files, extract_to)
            /\ fs_dirs' = RmtreeDirs(fs_dirs, extract_to)
       ELSE UNCHANGED <<fs_files, fs_dirs>>
    /\ zpc' = "done"
    /\ UNCHANGED <<mode, zip_path, extract_to, extract_password, member_idx,
                   extracted_files, extract_returned, source_dir, compress_password,
                   build_todo, build_calls, output_path, zexc, zret>>

\* The round trip's second call: extract_zip(output_path, dest, extract_password)
RoundTripExtract ==
    /\ ZipFrame
    /\ zpc = "rt_extract"
    /\ zip_path' = output_path
    /\ extract_to' = DestRoot
    /\ zpc' = "ext_open"
    /\ UNCHANGED <<mode, fs_files, fs_dirs, extract_password, member_idx,
                   extracted_files, extract_returned, source_dir, compress_password,
                   build_todo, build_calls, output_path, zexc, zret>>

NextZip ==
    \/ RezipCall
    \/ ExtractOpen
    \/ ExtractBadZip
    \/ ExtractSkip
    \/ ExtractMember
    \/ ExtractMemberFails
    \/ ExtractReturn
    \/ RezipCheck
    \/ BuildSourceMissing
    \/ BuildOpen
    \/ BuildWrite
    \/ BuildFails
    \/ BuildClose
    \/ RezipFinally
    \/ RoundTripExtract

SpecZip == InitZip /\ [][NextZip]_vars

\* A stored name has a parent-directory segment / is an absolute path.
HasDotDotSegment(name) == \E i \in 1..Len(Split(name)) : Split(name)[i] = DotDot
StoredAbsolute(name) == Len(name) >= 1 /\ name[1] = "/"

\* C3: extract_zip's list never holds an entry whose stored name is absolute or
\* has a ".." segment, every recorded path lies below the destination, and no
\* file or directory is created outside the destination (the only other files
\* on disk are those of the source tree, which were there before).
C3_TraversalExcluded ==
    /\ \A i \in 1..Len(extracted_files) :
          /\ ~StoredAbsolute(extracted_files[i].member)
          /\ ~HasDotDotSegment(extracted_files[i].member)
          /\ IsPrefix(extract_to, extracted_files[i].path)
          /\ \A k \in 1..Len(extracted_files[i].path) : extracted_files[i].path[k] # DotDot
    /\ \A f \in fs_files :
          \/ IsPrefix(SrcRoot, f.path)
          \/ extract_to # <<>> /\ IsPrefix(extract_to, f.path)
    /\ \A d \in fs_dirs :
          \/ IsPrefix(SrcRoot, d)
          \/ extract_to # <<>> /\ IsPrefix(extract_to, d)

\* extract_zip has returned a list with an entry in it, from a container that
\* holds an absolute or a ".." entry.
C3_Witness ==
    /\ extract_returned
    /\ extracted_files # <<>>
    /\ \E i \in 1..Len(zip_path.entries) :
          StoredAbsolute(zip_path.entries[i].name) \/ HasDotDotSegment(zip_path.entries[i].name)

\* The names of the entries whose stored path is neither absolute nor holds a
\* ".." segment, in container order.
SafeNames(entries) ==
    LET safe == SelectSeq(entries,
                          LAMBDA e : ~StoredAbsolute(e.name) /\ ~HasDotDotSegment(e.name))
    IN  [i \in 1..Len(safe) |-> safe[i].name]

\* C16: when extract_zip returns, its list holds exactly the entries whose
\* stored path is neither absolute nor has a ".." segment, in container order
\* (a name with two dots inside a segment is extracted; a rejected entry does
\* not stop the entries after it).
C16_ExtractIffSafe ==
    extract_returned =>
        [i \in 1..Len(extracted_files) |-> extracted_files[i].member]
            = SafeNames(zip_path.entries)

\* C4: when a call of rezip_file has finished, by return or by exception, its
\* scratch directory and everything below it is gone.
C4_ScratchRemoved ==
    (mode = "rezip" /\ zpc = "done") =>
        /\ \A d \in fs_dirs : ~IsPrefix(Scratch, d)
        /\ \A f \in fs_files : ~IsPrefix(Scratch, f.path)

\* rezip_file has finished with an error raised by the extraction of a later
\* member, after an earlier member had been extracted into the scratch directory.
C4_Witness ==
    /\ mode = "rezip"
    /\ zpc = "done"
    /\ zexc \in {"bad_password", "extract_failed", "extract_error"}
    /\ extracted_files # <<>>

\* C8: when the extraction in rezip_file has returned an empty list, the
\* builder is never called, no output exists, and the call ends with the
\* empty-archive error.
C8_EmptyArchiveFails ==
    (mode = "rezip" /\ extract_returned /\ extracted_files = <<>>) =>
        /\ build_calls = 0
        /\ output_path = None
        /\ ~zret
        /\ zpc \in {"check", "finally", "done"}
        /\ (zpc \in {"finally", "done"}) => zexc = "empty"

\* rezip_file has finished with the empty-archive error for a container all
\* of whose entries the traversal guard rejected.
C8_Witness ==
    /\ mode = "rezip"
    /\ zpc = "done"
    /\ zexc = "empty"
    /\ zip_path.entries # <<>>

\* C9: a container with at least one file, built with password "p", extracts
\* when extract_zip is given "p" and fails with the password-mismatch error
\* when it is given another password or none.
C9_PasswordMismatchFails ==
    (/\ mode = "roundtrip"
     /\ zpc = "done"
     /\ zret
     /\ compress_password = "p"
     /\ output_path.entries # <<>>) =>
        IF extract_password = "p"
        THEN extract_returned /\ zexc = ""
        ELSE ~extract_returned /\ zexc = "bad_password"

\* The files below root, by their paths relative to it.
RelTree(fset, root) ==
    {[path |-> relative_to(f.path, root), data |-> f.data] : f \in WalkFiles(fset, root)}

\* C10: after create_zip_from_directory and extract_zip with the same
\* password, the destination holds the relative paths and contents of the
\* source tree, no more and no fewer.
C10_RoundTrip ==
    (/\ mode = "roundtrip"
     /\ zpc = "done"
     /\ zret
     /\ extract_password = compress_password) =>
        /\ extract_returned
        /\ RelTree(fs_files, DestRoot) = RelTree(fs_files, SrcRoot)

(***************************************************************************)
(* add_compress_task: the batch upload handler of handlers/compress.py.    *)
(*                                                                         *)
(* An UploadFile is [filename, size, body]: the file name (a string, as    *)
(* its characters), the advertised size ([known, n]; known is FALSE for    *)
(* None) and the number of bytes the body delivers.                        *)
(***************************************************************************)
BatchFrame == UNCHANGED <<uploadVars, zipVars, laterVars>>

\* Files in one modelled request.
MaxBatch == 3

\* str.lower() on the characters of the model's names
LowerChar(c) ==
    CASE c = "Z" -> "z"
      [] c = "I" -> "i"
      [] c = "P" -> "p"
      [] c = "A" -> "a"
      [] OTHER -> c

lower(s) == [i \in 1..Len(s) |-> LowerChar(s[i])]

\* str.rfind(".") + 1: the position of the last dot, 0 when there is none
RECURSIVE rfind_dot(_, _)
rfind_dot(s, i) ==
    IF i = 0 THEN 0
    ELSE IF s[i] = "." THEN i
    ELSE rfind_dot(s, i - 1)

\* Path(filename).name: the last segment
PathName(filename) ==
    IF PathParts(filename) = <<>> THEN <<>>
    ELSE PathParts(filename)[Len(PathParts(filename))]

\* Path(filename).suffix: from the last dot of the name, unless that dot is
\* the first or the last character
suffix(filename) ==
    LET name == PathName(filename)
        i == rfind_dot(name, Len(name))
    IN  IF 1 < i /\ i < Len(name) THEN SubSeq(name, i, Len(name)) ELSE <<>>

\* get_file_extension
get_file_extension(filename) == lower(suffix(filename))

\* compress.ALLOWED_FILE_TYPES
ALLOWED_FILE_TYPES ==
    { <<".", "z", "i", "p">>,
      <<".", "t", "a", "r", ".", "g", "z">>,
      <<".", "r", "a", "r">>,
      <<".", "t", "a", "r">>,
      <<".", "t", "a", "r", ".", "b", "z">>,
      <<".", "7", "z">> }

SizeNone == [known |-> FALSE, n |-> 0]
Size(n) == [known |-> TRUE, n |-> n]

\* validate_file: "valid", the kind of the error it returns, or "TypeError"
\* when file.size > MAX_FILE_SIZE compares None with an int.
validate_file(file) ==
    IF file.filename = <<>> \/ file.size = Size(0) THEN "empty"
    ELSE IF ~file.size.known THEN "TypeError"
    ELSE IF file.size.n > compress_MAX_FILE_SIZE THEN "too_large"
    ELSE IF get_file_extension(file.filename) \notin ALLOWED_FILE_TYPES THEN "bad_type"
    ELSE "valid"

\* upload_single_file's loop on a body of len bytes, read in full chunks:
\* [ok, size, wrote] with the bytes counted and the bytes written to the temp
\* file when the loop ends or raises.
RECURSIVE Stream(_, _, _)
Stream(total, rest, v) ==
    IF rest = 0 THEN [ok |-> TRUE, size |-> total, wrote |-> total]
    ELSE LET c == Min(CHUNK_SIZE, rest)
         IN  IF OverLimit(total + c, v)
             THEN [ok |-> FALSE, size |-> total + c, wrote |-> total]
             ELSE Stream(total + c, rest - c, v)

\* "a.zip", "A.ZIP", "b.txt"
NameAZip == <<"a", ".", "z", "i", "p">>
NameUpperZip == <<"A", ".", "Z", "I", "P">>
NameBTxt == <<"b", ".", "t", "x", "t">>

BodyOver == compress_MAX_FILE_SIZE + 1

\* The UploadFiles of the model.  The body matters only for a file that
\* passes validate_file; the others carry a body of one byte.
UploadFiles ==
    {[filename |-> n, size |-> s, body |-> 1] :
        n \in {NameAZip, NameBTxt},
        s \in {SizeNone, Size(0), Size(1), Size(BodyOver)}}
    \cup {[filename |-> NameAZip, size |-> Size(1), body |-> BodyOver],
          [filename |-> NameUpperZip, size |-> Size(1), body |-> 1],
          [filename |-> <<>>, size |-> Size(1), body |-> 1]}

InitBatch ==
    /\ IdleUpload
    /\ IdleZip
    /\ IdleLater
    /\ files \in SeqsUpTo(UploadFiles, MaxBatch)
    /\ hpc = "entry"
    /\ idx = 0
    /\ uploaded_files = <<>>
    /\ upload_dir = {}
    /\ temp_dir = {}
    /\ next_uuid = 0
    /\ background_tasks = <<>>
    /\ persisted = {}
    /\ result = [kind |-> "none", status |-> 0]
    /\ response = [sent |-> FALSE, status_code |-> 0, code |-> 0]

\* if not files: raise HTTPException(400, ...)  (before the try block)
HandlerEntry ==
    /\ BatchFrame
    /\ UNCHANGED response
    /\ hpc = "entry"
    /\ IF files = <<>>
       THEN /\ result' = [kind |-> "HTTPException", status |-> 400]
            /\ hpc' = "done"
            /\ UNCHANGED idx
       ELSE /\ idx' = 1
            /\ hpc' = "validate"
            /\ UNCHANGED result
    /\ UNCHANGED <<files, uploaded_files, upload_dir, temp_dir, next_uuid,
                   background_tasks, persisted>>

\* validation_result = await validate_file(file);
\* if "error" in validation_result: raise HTTPException(400, ...)
HandlerValidate ==
    /\ BatchFrame
    /\ UNCHANGED response
    /\ hpc = "validate"
    /\ idx <= Len(files)
    /\ hpc' = CASE validate_file(files[idx]) = "valid" -> "upload"
                [] validate_file(files[idx]) = "TypeError" -> "except_other"
                [] OTHER -> "except_http"
    /\ UNCHANGED <<files, idx, uploaded_files, upload_dir, temp_dir, next_uuid,
                   background_tasks, persisted, result>>

\* unique_filename = f"{uuid.uuid4().hex}_{file.filename}"
unique_filename_no_uuid(uuid, filename) == <<0, filename>>
unique_filename(uuid, filename) == <<uuid, filename>>

\* file_info = await upload_single_file(file); uploaded_files.append(file_info)
\* The whole call: the temp file is written, then renamed into UPLOAD_DIR, or
\* unlinked when the size check raises HTTPException(400).
HandlerUpload ==
    /\ BatchFrame
    /\ UNCHANGED response
    /\ hpc = "upload"
    /\ LET file == files[idx]
           saved == unique_filename(next_uuid, file.filename)
           run == Stream(0, file.body, "handler")
       IN  /\ persisted' = IF run.wrote > 0 THEN persisted \cup {idx} ELSE persisted
           /\ IF run.ok
              THEN /\ upload_dir' = upload_dir \cup {saved}
                   /\ uploaded_files' =
                         Append(uploaded_files,
                                [original_name |-> file.filename,
                                 saved_name |-> saved,
                                 size |-> SizeField("handler", run.size)])
                   /\ hpc' = "add_task"
              ELSE /\ UNCHANGED <<upload_dir, uploaded_files>>
                   /\ hpc' = "except_http"
    /\ next_uuid' = next_uuid + 1
    /\ UNCHANGED <<files, idx, temp_dir, background_tasks, result>>

\* upload_single_file raises another exception (a read, write or rename
\* failed); its except block has unlinked the temp file.
HandlerUploadFails ==
    /\ BatchFrame
    /\ UNCHANGED response
    /\ hpc = "upload"
    /\ \E touched \in BOOLEAN :
          persisted' = IF touched THEN persisted \cup {idx} ELSE persisted
    /\ next_uuid' = next_uuid + 1
    /\ hpc' = "except_other"
    /\ UNCHANGED <<files, idx, uploaded_files, upload_dir, temp_dir,
                   background_tasks, result>>

\* background_tasks.add_task(process_compress_task, file_info); next file
HandlerAddTask ==
    /\ BatchFrame
    /\ UNCHANGED response
    /\ hpc = "add_task"
    /\ background_tasks' = Append(background_tasks, uploaded_files[Len(uploaded_files)])
    /\ idx' = idx + 1
    /\ hpc' = "validate"
    /\ UNCHANGED <<files, uploaded_files, upload_dir, temp_dir, next_uuid,
                   persisted, result>>

\* return success_response({"files": uploaded_files, ...})
HandlerReturn ==
    /\ BatchFrame
    /\ UNCHANGED response
    /\ hpc = "validate"
    /\ idx > Len(files)
    /\ result' = [kind |-> "success", status |-> 200]
    /\ hpc' = "done"
    /\ UNCHANGED <<files, idx, uploaded_files, upload_dir, temp_dir, next_uuid,
                   background_tasks, persisted>>

\* except HTTPException: raise
HandlerReraise ==
    /\ BatchFrame
    /\ UNCHANGED response
    /\ hpc = "except_http"
    /\ result' = [kind |-> "HTTPException", status |-> 400]
    /\ hpc' = "done"
    /\ UNCHANGED <<files, idx, uploaded_files, upload_dir, temp_dir, next_uuid,
                   background_tasks, persisted>>

\* cleanup_uploaded_files: unlink every file_info's file that exists; an
\* unlink that raises (the entries at the positions in failed) is logged and
\* leaves its file
cleanup_uploaded_files(dir, infos, failed) ==
    dir \ {infos[i].saved_name : i \in (1..Len(infos)) \ failed}

\* except Exception as e: await cleanup_uploaded_files(uploaded_files);
\* raise HTTPException(500, ...)
HandlerExceptOther ==
    /\ BatchFrame
    /\ UNCHANGED response
    /\ hpc = "except_other"
    /\ \E failed \in SUBSET (1..Len(uploaded_files)) :
          upload_dir' = cleanup_uploaded_files(upload_dir, uploaded_files, failed)
    /\ result' = [kind |-> "HTTPException", status |-> 500]
    /\ hpc' = "done"
    /\ UNCHANGED <<files, idx, uploaded_files, temp_dir, next_uuid,
                   background_tasks, persisted>>

\* success_response(data): the body FastAPI sends with the route's default
\* status
success_response == [sent |-> TRUE, status_code |-> 200, code |-> 200]

\* http_error_handler: ORJSONResponse(response_data) with 'code': exc.status_code
\* in the body and no status_code argument, so the response's default stays
http_error_handler(exc) == [sent |-> TRUE, status_code |-> 200, code |-> exc.status]

\* The application answers the request: the returned body, or the response of
\* the handler registered for HTTPException.
HandlerRespond ==
    /\ BatchFrame
    /\ hpc = "done"
    /\ response' = IF result.kind = "HTTPException"
                   THEN http_error_handler(result)
                   ELSE success_response
    /\ hpc' = "responded"
    /\ UNCHANGED <<files, idx, uploaded_files, upload_dir, temp_dir, next_uuid,
                   background_tasks, persisted, result>>

NextBatch ==
    \/ HandlerEntry
    \/ HandlerValidate
    \/ HandlerUpload
    \/ HandlerUploadFails
    \/ HandlerAddTask
    \/ HandlerReturn
    \/ HandlerReraise
    \/ HandlerExceptOther
    \/ HandlerRespond

SpecBatch == InitBatch /\ [][NextBatch]_vars

\* Every file of the batch passes validate_file / two files share a name.
AllValid(fs) == \A j \in 1..Len(fs) : validate_file(fs[j]) = "valid"
HasDuplicateName(fs) == \E i, j \in 1..Len(fs) : i # j /\ fs[i].filename = fs[j].filename

\* C5: a byte of a file of the batch reaches the disk only when every file of
\* the batch has passed its validation and no two files share a name; a batch
\* of files that are valid one by one, two of them with the same name, ends
\* with HTTPException(400) and nothing written.
C5_ValidationBeforeWrite ==
    /\ (persisted # {}) => (AllValid(files) /\ ~HasDuplicateName(files))
    /\ (hpc = "done" /\ AllValid(files) /\ HasDuplicateName(files)) =>
          /\ result = [kind |-> "HTTPException", status |-> 400]
          /\ persisted = {}

\* C6: when the request has ended, on any path, none of the files the batch
\* uploaded is left in the upload directory.
C6_CleanupOnEveryPath ==
    (hpc = "done") =>
        \A i \in 1..Len(uploaded_files) : uploaded_files[i].saved_name \notin upload_dir

\* C7: when every file of the batch has passed validation, the request ends
\* with a report and the loop has gone through every file, whatever happened
\* while uploading one of them.
C7_PerFileFailure ==
    (hpc = "done" /\ files # <<>> /\ AllValid(files)) =>
        /\ result.kind = "success"
        /\ idx = Len(files) + 1

\* C19: a request the handler ends by raising HTTPException(400) is answered
\* with HTTP status 400, and status 200 is delivered only when the handler
\* returned its success body.
C19_RejectionStatus ==
    response.sent =>
        /\ (result = [kind |-> "HTTPException", status |-> 400]) => response.status_code = 400
        /\ (response.status_code = 200) => result.kind = "success"

(***************************************************************************)
(* FileService.validate_file_queue and validate_single_file.               *)
(*                                                                         *)
(* The returned dict is [kind, name, n]: kind is "success" or the kind of  *)
(* the error, name the file name an error message carries, n the number it *)
(* carries (the limit of the count error, total_files of a success).       *)
(***************************************************************************)
QueueFrame == UNCHANGED <<uploadVars, zipVars, batchVars, validateVars,
                          cleanupVars, pageVars, concVars>>

\* settings.MAX_FILES_PER_REQUEST = 10, scaled down
MAX_FILES_PER_REQUEST == 2

\* Longest list validate_file_queue is given (beyond the limit).
MaxQueue == 3

\* settings.ALLOWED_FILE_TYPES
settings_ALLOWED_FILE_TYPES == { <<".", "z", "i", "p">> }

\* validate_single_file: "success" or the kind of the error it returns.
\* `file.size and ...` is false for None and for 0.
validate_single_file(file) ==
    IF file.filename = <<>> THEN "empty_name"
    ELSE IF get_file_extension(file.filename) \notin settings_ALLOWED_FILE_TYPES THEN "bad_type"
    ELSE IF file.size.known /\ file.size.n # 0 /\ file.size.n > settings_MAX_FILE_SIZE
         THEN "too_large"
    ELSE "success"

\* if file.filename in file_names
InNamesFolded(name, names) == lower(name) \in {lower(x) : x \in names}
InNames(name, names) == name \in names

\* if len(files) > settings.MAX_FILES_PER_REQUEST
OverCountInclusive(n) == n >= MAX_FILES_PER_REQUEST
OverCount(n) == n > MAX_FILES_PER_REQUEST

\* "c.zip"
NameCZip == <<"c", ".", "z", "i", "p">>

\* The UploadFiles validate_file_queue is given.
QueueFiles ==
    {[filename |-> nm, size |-> Size(1), body |-> 1] :
        nm \in {NameAZip, NameUpperZip, NameCZip, NameBTxt, <<>>}}
    \cup {[filename |-> NameAZip, size |-> sz, body |-> 1] :
            sz \in {SizeNone, Size(0), Size(settings_MAX_FILE_SIZE + 1)}}

InitQueue ==
    /\ IdleUpload
    /\ IdleZip
    /\ IdleBatch
    /\ IdleValidate
    /\ IdleCleanup
    /\ IdlePage
    /\ IdleConc
    /\ q_files \in SeqsUpTo(QueueFiles, MaxQueue)
    /\ qpc = "entry"
    /\ q_idx = 0
    /\ file_names = {}
    /\ q_ret = [kind |-> "none", name |-> <<>>, n |-> 0]

\* if not files: return {"error": ...}; file_names = set()
QueueEntry ==
    /\ QueueFrame
    /\ qpc = "entry"
    /\ IF q_files = <<>>
       THEN /\ q_ret' = [kind |-> "empty", name |-> <<>>, n |-> 0]
            /\ qpc' = "done"
            /\ UNCHANGED q_idx
       ELSE /\ q_idx' = 1
            /\ qpc' = "loop"
            /\ UNCHANGED q_ret
    /\ UNCHANGED <<q_files, file_names>>

\* for file in files: if file.filename in file_names: return {"error": ...};
\* file_names.add(file.filename)
QueueDuplicateCheck ==
    /\ QueueFrame
    /\ qpc = "loop"
    /\ q_idx <= Len(q_files)
    /\ IF InNames(q_files[q_idx].filename, file_names)
       THEN /\ q_ret' = [kind |-> "duplicate", name |-> q_files[q_idx].filename, n |-> 0]
            /\ qpc' = "done"
            /\ UNCHANGED file_names
       ELSE /\ file_names' = file_names \cup {q_files[q_idx].filename}
            /\ qpc' = "single"
            /\ UNCHANGED q_ret
    /\ UNCHANGED <<q_files, q_idx>>

\* file_validation = await FileService.validate_single_file(file);
\* if "error" in file_validation: return file_validation
QueueValidateSingle ==
    /\ QueueFrame
    /\ qpc = "single"
    /\ LET r == validate_single_file(q_files[q_idx])
       IN  IF r # "success"
           THEN /\ q_ret' = [kind |-> r, name |-> q_files[q_idx].filename, n |-> 0]
                /\ qpc' = "done"
                /\ UNCHANGED q_idx
           ELSE /\ q_idx' = q_idx + 1
                /\ qpc' = "loop"
                /\ UNCHANGED q_ret
    /\ UNCHANGED <<q_files, file_names>>

\* after the loop: if len(files) > settings.MAX_FILES_PER_REQUEST: return
\* {"error": ...}; return {"success": True, "total_files": len(files)}
QueueCountCheck ==
    /\ QueueFrame
    /\ qpc = "loop"
    /\ q_idx > Len(q_files)
    /\ q_ret' = IF OverCount(Len(q_files))
                THEN [kind |-> "too_many", name |-> <<>>, n |-> MAX_FILES_PER_REQUEST]
                ELSE [kind |-> "success", name |-> <<>>, n |-> Len(q_files)]
    /\ qpc' = "done"
    /\ UNCHANGED <<q_files, q_idx, file_names>>

NextQueue ==
    \/ QueueEntry
    \/ QueueDuplicateCheck
    \/ QueueValidateSingle
    \/ QueueCountCheck

SpecQueue == InitQueue /\ [][NextQueue]_vars

\* The first position whose file name equals the name of an earlier file, 0
\* when there is none.
FirstRepeat(fs) ==
    LET reps == {j \in 1..Len(fs) : \E i \in 1..(j - 1) : fs[i].filename = fs[j].filename}
    IN  IF reps = {} THEN 0 ELSE CHOOSE j \in reps : \A k \in reps : j <= k

\* Every file before position j passes validate_single_file.
PassSingleBefore(fs, j) == \A i \in 1..(j - 1) : validate_single_file(fs[i]) = "success"

\* Nothing of the service's or the handler's directories exists.
NoDiskWrite == upload_dir = {} /\ temp_dir = {} /\ fs_files = {} /\ ~temp_path.exists /\ ~final_path.exists

\* C11 as stated: a batch in which two files have exactly the same name ends
\* with the duplicate-name error naming a repeated name, and nothing is written.
C11_DuplicateRejected ==
    (qpc = "done" /\ HasDuplicateName(q_files)) =>
        /\ q_ret.kind = "duplicate"
        /\ \E i, j \in 1..Len(q_files) :
              i # j /\ q_files[i].filename = q_ret.name /\ q_files[j].filename = q_ret.name
        /\ NoDiskWrite

\* C11 amended: a batch in which two files have exactly the same name is
\* never accepted; when every file before the first repeated one passes the
\* per-file checks, the error is the duplicate-name error naming that file's
\* name; the duplicate-name error is only given for an exact repeat (names
\* differing in case are not duplicates); and nothing is written to disk.
C11_DuplicateRejectedAmended ==
    /\ NoDiskWrite
    /\ (qpc = "done") =>
          LET j == FirstRepeat(q_files)
          IN  /\ (j # 0) => q_ret.kind # "success"
              /\ (j # 0 /\ PassSingleBefore(q_files, j)) =>
                    q_ret = [kind |-> "duplicate", name |-> q_files[j].filename, n |-> 0]
              /\ (q_ret.kind = "duplicate") => (j # 0 /\ q_ret.name = q_files[j].filename)
              /\ (j = 0 /\ PassSingleBefore(q_files, Len(q_files) + 1)
                    /\ ~OverCount(Len(q_files)) /\ q_files # <<>>) => q_ret.kind = "success"

\* A repeated valid name was reported, and a pair of names differing only in
\* case was accepted.
C11_Witness ==
    /\ qpc = "done"
    /\ q_ret = [kind |-> "duplicate", name |-> NameAZip, n |-> 0]
    /\ Len(q_files) = 3
    /\ q_files[1].filename = NameUpperZip

\* C12 as stated: a batch of more files than the maximum ends with the
\* too-many-files error naming the limit, whatever its files; a batch of
\* exactly the maximum that passes the other checks is accepted.
C12_TooManyFiles ==
    (qpc = "done") =>
        /\ (Len(q_files) > MAX_FILES_PER_REQUEST) =>
              q_ret = [kind |-> "too_many", name |-> <<>>, n |-> MAX_FILES_PER_REQUEST]
        /\ (Len(q_files) = MAX_FILES_PER_REQUEST /\ FirstRepeat(q_files) = 0
              /\ PassSingleBefore(q_files, Len(q_files) + 1)) => q_ret.kind = "success"

\* C12 amended: a batch of more files than the maximum is never accepted; it
\* ends with the too-many-files error naming the limit when no file name is
\* repeated and every file passes the per-file checks (those are reported
\* first); a batch of exactly the maximum that passes the other checks is
\* accepted.
C12_TooManyFilesAmended ==
    (qpc = "done") =>
        /\ (Len(q_files) > MAX_FILES_PER_REQUEST) => q_ret.kind # "success"
        /\ (Len(q_files) > MAX_FILES_PER_REQUEST /\ FirstRepeat(q_files) = 0
              /\ PassSingleBefore(q_files, Len(q_files) + 1)) =>
              q_ret = [kind |-> "too_many", name |-> <<>>, n |-> MAX_FILES_PER_REQUEST]
        /\ (q_ret.kind = "too_many") => Len(q_files) > MAX_FILES_PER_REQUEST
        /\ (Len(q_files) = MAX_FILES_PER_REQUEST /\ FirstRepeat(q_files) = 0
              /\ PassSingleBefore(q_files, Len(q_files) + 1)) =>
              q_ret = [kind |-> "success", name |-> <<>>, n |-> MAX_FILES_PER_REQUEST]

\* A batch over the limit was rejected for its count.
C12_Witness ==
    /\ qpc = "done"
    /\ Len(q_files) = MAX_FILES_PER_REQUEST + 1
    /\ q_ret.kind = "too_many"

(***************************************************************************)
(* Per-file validation: FileService.validate_single_file and the handler's *)
(* validate_file, one call on one UploadFile.                              *)
(***************************************************************************)
ValidateFrame == UNCHANGED <<uploadVars, zipVars, batchVars, queueVars,
                             cleanupVars, pageVars, concVars>>

\* "a.tar.gz", "a.tar", "a.tar.bz", "a.rar", "a.7z", "a.gz", "a.zip.txt", "azip", "a."
NameATarGz == <<"a", ".", "t", "a", "r", ".", "g", "z">>
NameATar == <<"a", ".", "t", "a", "r">>
NameATarBz == <<"a", ".", "t", "a", "r", ".", "b", "z">>
NameARar == <<"a", ".", "r", "a", "r">>
NameA7z == <<"a", ".", "7", "z">>
NameAGz == <<"a", ".", "g", "z">>
NameAZipTxt == <<"a", ".", "z", "i", "p", ".", "t", "x", "t">>
NameNoDot == <<"a", "z", "i", "p">>
NameTrailingDot == <<"a", ".">>

ValidateNames ==
    {NameAZip, NameUpperZip, NameCZip, NameBTxt, NameATarGz, NameATar, NameATarBz,
     NameARar, NameA7z, NameAGz, NameAZipTxt, NameNoDot, NameTrailingDot, <<>>}

\* Advertised sizes: None, 0, and sizes at and beyond each limit.
ValidateSizes ==
    {SizeNone, Size(0), Size(1), Size(compress_MAX_FILE_SIZE),
     Size(compress_MAX_FILE_SIZE + 1), Size(settings_MAX_FILE_SIZE + 1)}

\* The allow-list and the size limit each validator compares with.
AllowedTypes(v) == IF v = "service" THEN settings_ALLOWED_FILE_TYPES ELSE ALLOWED_FILE_TYPES

InitValidate ==
    /\ IdleUpload
    /\ IdleZip
    /\ IdleBatch
    /\ IdleQueue
    /\ IdleCleanup
    /\ IdlePage
    /\ IdleConc
    /\ v_variant \in {"service", "handler"}
    /\ v_file \in {[filename |-> nm, size |-> sz, body |-> 1] :
                      nm \in ValidateNames, sz \in ValidateSizes}
    /\ vpc = "call"
    /\ v_ret = "none"

\* await FileService.validate_single_file(file)
ValidateSingleFile ==
    /\ ValidateFrame
    /\ vpc = "call"
    /\ v_variant = "service"
    /\ v_ret' = validate_single_file(v_file)
    /\ vpc' = "done"
    /\ UNCHANGED <<v_variant, v_file>>

\* await validate_file(file)
ValidateFile ==
    /\ ValidateFrame
    /\ vpc = "call"
    /\ v_variant = "handler"
    /\ v_ret' = validate_file(v_file)
    /\ vpc' = "done"
    /\ UNCHANGED <<v_variant, v_file>>

NextValidate ==
    \/ ValidateSingleFile
    \/ ValidateFile

SpecValidate == InitValidate /\ [][NextValidate]_vars

\* s ends with e
EndsWith(s, e) == Len(s) >= Len(e) /\ SubSeq(s, Len(s) - Len(e) + 1, Len(s)) = e

\* The validator returned without an error.
Accepted(r) == r \in {"success", "valid"}

\* C13: a file that passes the name and size checks is accepted exactly when
\* its lowercased name ends with an extension of the validator's allow-list,
\* and is rejected with the unsupported-type error otherwise.
C13_ExtensionAllowList ==
    (vpc = "done" /\ v_file.filename # <<>> /\ v_file.size = Size(1)) =>
        IF \E e \in AllowedTypes(v_variant) : EndsWith(lower(v_file.filename), e)
        THEN Accepted(v_ret)
        ELSE v_ret = "bad_type"

\* C18: the size error is only given for an advertised size beyond the
\* validator's limit, and a file with a name, an allowed extension and no
\* advertised size (None) is accepted.
C18_AbsentSizePasses ==
    (vpc = "done") =>
        /\ (v_ret = "too_large") =>
              (v_file.size.known /\ v_file.size.n > MaxFileSize(v_variant))
        /\ (v_file.filename # <<>> /\ ~v_file.size.known
              /\ get_file_extension(v_file.filename) \in AllowedTypes(v_variant)) =>
              Accepted(v_ret)

(***************************************************************************)
(* cleanup_uploaded_files (FileService's and the handler's copy are the    *)
(* same code), one entry of the list per step.                             *)
(*                                                                         *)
(* A file_info is [has_path, file_path]: has_path is FALSE for a dict      *)
(* without the "file_path" key, for which .get returns "" and Path("") is  *)
(* the current directory.                                                  *)
(***************************************************************************)
CleanupFrame == UNCHANGED <<uploadVars, zipVars, batchVars, queueVars,
                            validateVars, pageVars, concVars>>

\* Longest list cleanup_uploaded_files is given.
MaxCleanup == 3

\* Path(""): the current directory
CurDir == "."

CleanupPaths == {"uploads/1_a.zip", "uploads/2_a.zip"}

FileInfos ==
    {[has_path |-> TRUE, file_path |-> q] : q \in CleanupPaths}
    \cup {[has_path |-> FALSE, file_path |-> ""]}

\* Path(file_info.get("file_path", ""))
file_path_of(info) == IF info.has_path THEN info.file_path ELSE CurDir

\* What unlink() can raise on a path that exists() reported.
UnlinkErrors(q) ==
    IF q = CurDir THEN {"IsADirectoryError"} ELSE {"PermissionError", "FileNotFoundError"}

\* except Exception as e
ExceptCatchesNotFoundOnly(e) == e = "FileNotFoundError"
ExceptCatches(e) == TRUE

InitCleanup ==
    /\ IdleUpload
    /\ IdleZip
    /\ IdleBatch
    /\ IdleQueue
    /\ IdleValidate
    /\ IdlePage
    /\ IdleConc
    /\ c_files \in SeqsUpTo(FileInfos, MaxCleanup)
    /\ \E present \in SUBSET CleanupPaths : c_disk = present \cup {CurDir}
    /\ cpc = "loop"
    /\ c_idx = 1
    /\ c_attempted = {}
    /\ c_failed = {}
    /\ c_raised = FALSE

\* if file_path.exists(): file_path.unlink()  -- the file is removed
CleanupUnlink ==
    /\ CleanupFrame
    /\ cpc = "loop"
    /\ c_idx <= Len(c_files)
    /\ file_path_of(c_files[c_idx]) \in c_disk
    /\ file_path_of(c_files[c_idx]) # CurDir
    /\ c_disk' = c_disk \ {file_path_of(c_files[c_idx])}
    /\ c_attempted' = c_attempted \cup {c_idx}
    /\ c_idx' = c_idx + 1
    /\ UNCHANGED <<c_files, cpc, c_failed, c_raised>>

\* if file_path.exists(): file_path.unlink()  -- unlink raises;
\* except Exception as e: logger.error(...)
CleanupUnlinkFails ==
    /\ CleanupFrame
    /\ cpc = "loop"
    /\ c_idx <= Len(c_files)
    /\ file_path_of(c_files[c_idx]) \in c_disk
    /\ \E e \in UnlinkErrors(file_path_of(c_files[c_idx])) :
          /\ c_disk' = IF e = "FileNotFoundError"
                       THEN c_disk \ {file_path_of(c_files[c_idx])}
                       ELSE c_disk
          /\ IF ExceptCatches(e)
             THEN /\ c_idx' = c_idx + 1
                  /\ UNCHANGED <<cpc, c_raised>>
             ELSE /\ c_raised' = TRUE
                  /\ cpc' = "done"
                  /\ UNCHANGED c_idx
    /\ c_attempted' = c_attempted \cup {c_idx}
    /\ c_failed' = c_failed \cup {c_idx}
    /\ UNCHANGED c_files

\* if file_path.exists(): false, nothing to delete
CleanupSkipMissing ==
    /\ CleanupFrame
    /\ cpc = "loop"
    /\ c_idx <= Len(c_files)
    /\ file_path_of(c_files[c_idx]) \notin c_disk
    /\ c_attempted' = c_attempted \cup {c_idx}
    /\ c_idx' = c_idx + 1
    /\ UNCHANGED <<c_files, cpc, c_disk, c_failed, c_raised>>

\* the for loop ends and the function returns None
CleanupReturn ==
    /\ CleanupFrame
    /\ cpc = "loop"
    /\ c_idx > Len(c_files)
    /\ cpc' = "done"
    /\ UNCHANGED <<c_files, c_idx, c_disk, c_attempted, c_failed, c_raised>>

NextCleanup ==
    \/ CleanupUnlink
    \/ CleanupUnlinkFails
    \/ CleanupSkipMissing
    \/ CleanupReturn

SpecCleanup == InitCleanup /\ [][NextCleanup]_vars

\* C14: when cleanup_uploaded_files has ended, it has not raised, it has gone
\* through every entry of its list (also those after an entry whose deletion
\* failed), and the file of every entry whose deletion did not fail is gone.
C14_BestEffortCleanup ==
    /\ ~c_raised
    /\ (cpc = "done") =>
          /\ c_attempted = 1..Len(c_files)
          /\ \A i \in 1..Len(c_files) :
                i \notin c_failed => file_path_of(c_files[i]) \notin c_disk

\* A deletion failed with the file left in place, and a later entry's file was
\* deleted all the same.
C14_Witness ==
    /\ cpc = "done"
    /\ \E i, j \in 1..Len(c_files) :
          /\ i < j
          /\ i \in c_failed
          /\ file_path_of(c_files[i]) \in c_disk
          /\ j \notin c_failed
          /\ file_path_of(c_files[j]) # file_path_of(c_files[i])

(***************************************************************************)
(* paginator_list(data_list, page, page_size), as get_uploaded_files calls *)
(* it with the request's query parameters (any integers).                  *)
(***************************************************************************)
PageFrame == UNCHANGED <<uploadVars, zipVars, batchVars, queueVars,
                         validateVars, cleanupVars, concVars>>

\* Longest list, largest page number (either sign) and largest page size.
MaxListLen == 5
MaxPage == 4
MaxPageSize == 3

Max(a, b) == IF a > b THEN a ELSE b

\* Python's list[start:stop]: a negative index counts from the end, and both
\* ends are clamped to the list.
SliceIndex(i, n) == IF i < 0 THEN Max(n + i, 0) ELSE Min(i, n)
Slice(s, start, stop) ==
    SubSeq(s, SliceIndex(start, Len(s)) + 1, SliceIndex(stop, Len(s)))

\* offset = (page - 1) * page_size
Offset(pg, size) == (pg - 1) * size

InitPage ==
    /\ IdleUpload
    /\ IdleZip
    /\ IdleBatch
    /\ IdleQueue
    /\ IdleValidate
    /\ IdleCleanup
    /\ IdleConc
    /\ \E n \in 0..MaxListLen : data_list = [i \in 1..n |-> i]
    /\ page \in (0 - MaxPage)..MaxPage
    /\ page_size \in (0 - 1)..MaxPageSize
    /\ ppc = "call"
    /\ p_offset = 0
    /\ p_limit = 0
    /\ p_ret = <<>>

\* offset = (page - 1) * page_size; limit = page_size
PaginatorOffset ==
    /\ PageFrame
    /\ ppc = "call"
    /\ p_offset' = Offset(page, page_size)
    /\ p_limit' = page_size
    /\ ppc' = "slice"
    /\ UNCHANGED <<data_list, page, page_size, p_ret>>

\* return data_list[offset: offset + limit]
PaginatorSlice ==
    /\ PageFrame
    /\ ppc = "slice"
    /\ p_ret' = Slice(data_list, p_offset, p_offset + p_limit)
    /\ ppc' = "done"
    /\ UNCHANGED <<data_list, page, page_size, p_offset, p_limit>>

NextPage ==
    \/ PaginatorOffset
    \/ PaginatorSlice

SpecPage == InitPage /\ [][NextPage]_vars

\* C15: for page_size >= 1, page p >= 1 gives exactly the elements at the
\* (0-based) positions (p-1)*page_size .. p*page_size-1 that exist, and page 0
\* or a negative page gives the empty list.
C15_OneIndexedPages ==
    (ppc = "done" /\ page_size >= 1) =>
        IF page >= 1
        THEN p_ret = SubSeq(data_list, (page - 1) * page_size + 1,
                            Min(page * page_size, Len(data_list)))
        ELSE p_ret = <<>>

(***************************************************************************)
(* Concurrent file-processing units on one disk: calls of                  *)
(* upload_single_file (followed by the deletion of the uploaded file by    *)
(* its request's cleanup) and calls of rezip_file, interleaved step by     *)
(* step.                                                                   *)
(*                                                                         *)
(* A path is [dir, prefix, unique, ext]; unique is the pair unique_filename*)
(* builds (the uuid and the original name; a scratch directory has no      *)
(* original name).                                                         *)
(***************************************************************************)
ConcFrame == UNCHANGED <<uploadVars, zipVars, batchVars, queueVars,
                         validateVars, cleanupVars, pageVars>>

\* Number of concurrent units.
MaxUnits == 2

Units == 1..MaxUnits

\* uuid.uuid4(): a value that was not returned before
uuid4(drawn) == Cardinality(drawn) + 1

\* temp_path = TEMP_DIR / f"{unique_filename}.tmp"
TempPathOf(tok, filename) ==
    [dir |-> "temp", prefix |-> "", unique |-> unique_filename(tok, filename), ext |-> ".tmp"]

\* final_path = UPLOAD_DIR / unique_filename
FinalPathOf(tok, filename) ==
    [dir |-> "uploads", prefix |-> "", unique |-> unique_filename(tok, filename), ext |-> ""]

\* temp_extract_dir = Path("temp") / f"extract_{uuid.uuid4().hex}"
ScratchDirOf(tok) ==
    [dir |-> "temp", prefix |-> "extract_", unique |-> <<tok, <<>>>>, ext |-> ""]

InitConc ==
    /\ IdleUpload
    /\ IdleZip
    /\ IdleBatch
    /\ IdleQueue
    /\ IdleValidate
    /\ IdleCleanup
    /\ IdlePage
    /\ u_kind \in [Units -> {"upload", "rezip"}]
    /\ u_name \in [Units -> {NameAZip, NameCZip, <<>>}]
    /\ \A u \in Units : (u_kind[u] = "rezip") <=> (u_name[u] = <<>>)
    /\ u_pc = [u \in Units |-> "start"]
    /\ u_token = [u \in Units |-> 0]
    /\ uuid_drawn = {}
    /\ disk = {}
    /\ u_touched = [u \in Units |-> {}]

\* A step of unit u that leaves it at position pc, with the disk as given and
\* the paths in used written, renamed or deleted by it.
UnitStep(u, pc, newdisk, used) ==
    /\ u_pc' = [u_pc EXCEPT ![u] = pc]
    /\ disk' = newdisk
    /\ u_touched' = [u_touched EXCEPT ![u] = @ \cup used]

\* unique_filename = f"{uuid.uuid4().hex}_{file.filename}"  /
\* temp_extract_dir = Path("temp") / f"extract_{uuid.uuid4().hex}"
UnitDrawUuid(u) ==
    /\ ConcFrame
    /\ u_pc[u] = "start"
    /\ u_token' = [u_token EXCEPT ![u] = uuid4(uuid_drawn)]
    /\ uuid_drawn' = uuid_drawn \cup {uuid4(uuid_drawn)}
    /\ UnitStep(u, IF u_kind[u] = "upload" THEN "open" ELSE "extract", disk, {})
    /\ UNCHANGED <<u_kind, u_name>>

\* async with aiofiles.open(temp_path, 'wb'): the temp file is created or truncated
UnitOpenTemp(u) ==
    /\ ConcFrame
    /\ u_pc[u] = "open"
    /\ LET t == TempPathOf(u_token[u], u_name[u])
       IN  UnitStep(u, "write", disk \cup {t}, {t})
    /\ UNCHANGED <<u_kind, u_name, u_token, uuid_drawn>>

\* await out_file.write(chunk), until the source ends
UnitWriteChunk(u) ==
    /\ ConcFrame
    /\ u_pc[u] = "write"
    /\ LET t == TempPathOf(u_token[u], u_name[u])
       IN  \E more \in BOOLEAN :
              UnitStep(u, IF more THEN "write" ELSE "rename", disk, {t})
    /\ UNCHANGED <<u_kind, u_name, u_token, uuid_drawn>>

\* a read or write raises, or the size check raises HTTPException(400)
UnitUploadRaises(u) ==
    /\ ConcFrame
    /\ u_pc[u] \in {"write", "rename"}
    /\ UnitStep(u, "except", disk, {})
    /\ UNCHANGED <<u_kind, u_name, u_token, uuid_drawn>>

\* temp_path.rename(final_path)
UnitRename(u) ==
    /\ ConcFrame
    /\ u_pc[u] = "rename"
    /\ LET t == TempPathOf(u_token[u], u_name[u])
           f == FinalPathOf(u_token[u], u_name[u])
       IN  /\ t \in disk
           /\ UnitStep(u, "uploaded", (disk \ {t}) \cup {f}, {t, f})
    /\ UNCHANGED <<u_kind, u_name, u_token, uuid_drawn>>

\* except Exception: if temp_path.exists(): temp_path.unlink(); raise e
UnitExceptUnlink(u) ==
    /\ ConcFrame
    /\ u_pc[u] = "except"
    /\ LET t == TempPathOf(u_token[u], u_name[u])
       IN  UnitStep(u, "done", disk \ {t}, IF t \in disk THEN {t} ELSE {})
    /\ UNCHANGED <<u_kind, u_name, u_token, uuid_drawn>>

\* cleanup_uploaded_files on the unit's file_info: file_path.unlink()
UnitCleanupFinal(u) ==
    /\ ConcFrame
    /\ u_pc[u] = "uploaded"
    /\ LET f == FinalPathOf(u_token[u], u_name[u])
       IN  UnitStep(u, "done", disk \ {f}, IF f \in disk THEN {f} ELSE {})
    /\ UNCHANGED <<u_kind, u_name, u_token, uuid_drawn>>

\* extract_zip(zip_path, temp_extract_dir, ...): mkdir and the members below it;
\* it returns or raises
UnitExtract(u) ==
    /\ ConcFrame
    /\ u_pc[u] = "extract"
    /\ LET d == ScratchDirOf(u_token[u])
       IN  \E ok \in BOOLEAN :
              UnitStep(u, IF ok THEN "build" ELSE "finally", disk \cup {d}, {d})
    /\ UNCHANGED <<u_kind, u_name, u_token, uuid_drawn>>

\* create_zip_from_directory(temp_extract_dir, output_path, ...): reads the
\* scratch directory; it returns or raises
UnitBuild(u) ==
    /\ ConcFrame
    /\ u_pc[u] = "build"
    /\ UnitStep(u, "finally", disk, {})
    /\ UNCHANGED <<u_kind, u_name, u_token, uuid_drawn>>

\* finally: if temp_dir.exists(): shutil.rmtree(temp_dir)
UnitRmtree(u) ==
    /\ ConcFrame
    /\ u_pc[u] = "finally"
    /\ LET d == ScratchDirOf(u_token[u])
       IN  UnitStep(u, "done", disk \ {d}, IF d \in disk THEN {d} ELSE {})
    /\ UNCHANGED <<u_kind, u_name, u_token, uuid_drawn>>

NextConc ==
    \/ \E u \in Units : UnitDrawUuid(u)
    \/ \E u \in Units : UnitOpenTemp(u)
    \/ \E u \in Units : UnitWriteChunk(u)
    \/ \E u \in Units : UnitUploadRaises(u)
    \/ \E u \in Units : UnitRename(u)
    \/ \E u \in Units : UnitExceptUnlink(u)
    \/ \E u \in Units : UnitCleanupFinal(u)
    \/ \E u \in Units : UnitExtract(u)
    \/ \E u \in Units : UnitBuild(u)
    \/ \E u \in Units : UnitRmtree(u)

SpecConc == InitConc /\ [][NextConc]_vars

\* The unit is an upload that has built its stored name.
HasStoredName(u) == u_kind[u] = "upload" /\ u_token[u] # 0

\* C17: under every interleaving, no path is written, renamed or deleted by
\* two units, no two uploads have the same stored name (also when their
\* original names are the same), and a unit never finds its own temp file or
\* scratch directory removed by another unit.
C17_PathsPartitioned ==
    /\ \A u, v \in Units : u # v => u_touched[u] \cap u_touched[v] = {}
    /\ \A u, v \in Units :
          (u # v /\ HasStoredName(u) /\ HasStoredName(v)) =>
              unique_filename(u_token[u], u_name[u]) # unique_filename(u_token[v], u_name[v])
    /\ \A u \in Units :
          /\ (u_pc[u] \in {"write", "rename"}) => TempPathOf(u_token[u], u_name[u]) \in disk
          /\ (u_pc[u] = "uploaded") => FinalPathOf(u_token[u], u_name[u]) \in disk
          /\ (u_pc[u] = "build") => ScratchDirOf(u_token[u]) \in disk

\* Two concurrent uploads of files with the same original name have both been
\* renamed into the upload directory and lie there side by side.
C17_Witness ==
    \E u, v \in Units :
        /\ u # v
        /\ u_kind[u] = "upload" /\ u_kind[v] = "upload"
        /\ u_name[u] = u_name[v]
        /\ u_pc[u] = "uploaded" /\ u_pc[v] = "uploaded"
        /\ FinalPathOf(u_token[u], u_name[u]) \in disk
        /\ FinalPathOf(u_token[v], u_name[v]) \in disk

====
